---- MODULE Spec2Model ----
(***************************************************************************)
(* A model of the backtesting core of trading_system_sim:                  *)
(*   BacktestFramework.execute_trade / run_backtest / generate_report      *)
(*   (src/src/enhanced_algo_test.py) and                                   *)
(*   TradingSystemRunner._slice_market_data / run_historical_test          *)
(*   (src/src/trading_system_runner.py).                                   *)
(*                                                                         *)
(* Time is counted in bar slots (one slot = one hourly bar); a calendar    *)
(* day holds SlotsPerDay slots.  Prices are integers, all bar prices are   *)
(* multiples of PDen so that entry_price * (1 +/- p) with p = n / PDen is  *)
(* an integer and the comparisons of the code are exact.                   *)
(***************************************************************************)
EXTENDS Integers, Sequences, FiniteSets, TLC

VARIABLES
    reference_date,     \* BacktestFramework.reference_date: <<>> (None) or <<t>>
    market_data,        \* run_backtest argument: ticker -> series of bars
    agent_responses,    \* run_backtest argument: the list of decisions
    trades,             \* BacktestFramework.trades
    current_positions,  \* BacktestFramework.current_positions: set of [ticker, position]
    metrics,            \* the local `metrics` of run_backtest / its returned value
    idx,                \* number of responses the loop of run_backtest has consumed
    result,             \* outcome of the loop body for the response consumed last
    pc,                 \* where the caller is: "idle", "loop", "returned", "reported"
    raw_data,           \* run_historical_test: what the data collector returned
    forward_days,       \* run_historical_test argument
    lookback_days,      \* run_historical_test argument
    decision_data,      \* run_historical_test: slice shown to the decision source
    report,             \* generate_report output: the trade_log
    held,               \* the (metrics, trades) the caller keeps from the run before
    runs,               \* number of run_backtest calls the caller has set up
    datetime_dtype      \* ticker -> dtype of the Datetime column of its series

vars == <<reference_date, market_data, agent_responses, trades, current_positions,
          metrics, idx, result, pc, raw_data, forward_days, lookback_days,
          decision_data, report, held, runs, datetime_dtype>>

----------------------------------------------------------------------------
(* Bounds of the model *)

MaxTime == 3
SlotsPerDay == 2
MaxBatch == 2
MaxRuns == 2
PDen == 10

(* Program constants *)

FeeNum == 1
FeeDen == 1000
MinDataPoints == 10

Times == 0..MaxTime

None == << >>

----------------------------------------------------------------------------
(* Bars and series *)

\* (High, Low, Close) of a bar, in price units; every shape has Low <= Close <= High
Shapes == <<
    [High |-> 10 * PDen, Low |-> 10 * PDen, Close |-> 10 * PDen],
    [High |-> 11 * PDen, Low |-> 10 * PDen, Close |-> 10 * PDen],
    [High |-> 11 * PDen, Low |-> 10 * PDen, Close |-> 11 * PDen],
    [High |-> 10 * PDen, Low |->  9 * PDen, Close |->  9 * PDen],
    [High |-> 10 * PDen, Low |->  9 * PDen, Close |-> 10 * PDen] >>

MkBar(t, s) ==
    [Datetime |-> t, High |-> Shapes[s].High, Low |-> Shapes[s].Low, Close |-> Shapes[s].Close]

RECURSIVE BuildSeries(_, _, _)
BuildSeries(f, t, last) ==
    IF t > last THEN << >>
    ELSE (IF f[t] = 0 THEN << >> ELSE << MkBar(t, f[t]) >>) \o BuildSeries(f, t + 1, last)

\* every chronologically sorted series over Times: each slot holds no bar or one bar
AllSeries == { BuildSeries(f, 0, MaxTime) : f \in [Times -> 0..Len(Shapes)] }

IsSorted(series) ==
    \A i \in 1..Len(series) - 1 : series[i].Datetime < series[i + 1].Datetime

----------------------------------------------------------------------------
(* Decision payloads (dictionaries) *)

HasKey(d, k) == k \in DOMAIN d

\* dict.get(key, default)
Get(d, k, default) == IF HasKey(d, k) THEN d[k] ELSE default

RequiredKeys == {"ticker", "action", "amount", "expected_timeframe"}

\* a timeframe string is a sequence of characters
TF(n) == << n, "d" >>

GoodDecisions ==
    { [ticker |-> "AAA", action |-> a, amount |-> 1,
       expected_timeframe |-> tf, expected_profit_percentage |-> p] :
         a \in {"BUY", "SELL"}, tf \in {TF("1"), TF("2")}, p \in {0, 1} }

BadDecisions ==
    { [ticker |-> "AAA", action |-> "BUY", amount |-> 1,
       expected_profit_percentage |-> 1],
      [ticker |-> "AAA", action |-> "BUY", amount |-> 1,
       expected_timeframe |-> TF("1")],
      [ticker |-> "ZZZ", action |-> "BUY", amount |-> 1,
       expected_timeframe |-> TF("1"), expected_profit_percentage |-> 1],
      [ticker |-> "AAA", action |-> "BUY", amount |-> 1,
       expected_timeframe |-> << "1", "w" >>, expected_profit_percentage |-> 1],
      [ticker |-> "AAA", action |-> "BUY", amount |-> 1,
       expected_timeframe |-> << "x", "d" >>, expected_profit_percentage |-> 1] }

Decisions == GoodDecisions \cup BadDecisions

----------------------------------------------------------------------------
(* execute_trade *)

DigitVal ==
    [c \in {"0", "1", "2", "3", "4", "5", "6", "7", "8", "9"} |->
        CASE c = "0" -> 0 [] c = "1" -> 1 [] c = "2" -> 2 [] c = "3" -> 3
          [] c = "4" -> 4 [] c = "5" -> 5 [] c = "6" -> 6 [] c = "7" -> 7
          [] c = "8" -> 8 [] c = "9" -> 9]

IsDigits(s) == Len(s) > 0 /\ \A i \in 1..Len(s) : s[i] \in DOMAIN DigitVal

RECURSIVE DigitsValue(_)
DigitsValue(s) ==
    IF Len(s) = 0 THEN 0
    ELSE 10 * DigitsValue(SubSeq(s, 1, Len(s) - 1)) + DigitVal[s[Len(s)]]

\* int(text): an optional sign followed by digits, anything else raises
IntParses(s) ==
    IF Len(s) > 0 /\ s[1] \in {"-", "+"} THEN IsDigits(Tail(s)) ELSE IsDigits(s)

IntValue(s) ==
    IF s[1] = "-" THEN 0 - DigitsValue(Tail(s))
    ELSE IF s[1] = "+" THEN DigitsValue(Tail(s))
    ELSE DigitsValue(s)

EndsWith(s, c) == Len(s) > 0 /\ s[Len(s)] = c

\* expected_timeframe[:-1]
DropLast(s) == SubSeq(s, 1, Len(s) - 1)

\* timedelta(days=days), in slots
DaysDelta(days) == days * SlotsPerDay

\* Datetime.dt.date
DayOf(t) == t \div SlotsPerDay

SetMax(S) == CHOOSE x \in S : \A y \in S : y <= x
SetMin(S) == CHOOSE x \in S : \A y \in S : x <= y

\* the values of a column
Highs(series) == { series[i].High : i \in 1..Len(series) }
Lows(series) == { series[i].Low : i \in 1..Len(series) }
Dates(series) == { DayOf(series[i].Datetime) : i \in 1..Len(series) }

TargetPrice(action, entry_price, p) ==
    IF action = "BUY" THEN (entry_price * (PDen + p)) \div PDen
    ELSE (entry_price * (PDen - p)) \div PDen

DayHitsStrict(action, daily_data, target_price) ==
    IF action = "BUY"
    THEN SetMax(Highs(daily_data)) > target_price
    ELSE SetMin(Lows(daily_data)) < target_price

\* the test made on one calendar-day group, and the rows it selects
DayHits(action, daily_data, target_price) ==
    IF action = "BUY"
    THEN SetMax(Highs(daily_data)) >= target_price
    ELSE SetMin(Lows(daily_data)) <= target_price

Reverse(q) == [i \in 1..Len(q) |-> q[Len(q) + 1 - i]]

HitRowsLatestFirst(action, daily_data, target_price) ==
    IF action = "BUY"
    THEN Reverse(SelectSeq(daily_data, LAMBDA b : b.High >= target_price))
    ELSE Reverse(SelectSeq(daily_data, LAMBDA b : b.Low <= target_price))

HitRows(action, daily_data, target_price) ==
    IF action = "BUY"
    THEN SelectSeq(daily_data, LAMBDA b : b.High >= target_price)
    ELSE SelectSeq(daily_data, LAMBDA b : b.Low <= target_price)

\* the groupby loop: calendar days in ascending order, stopping at the first
\* day that reaches the target; << >> when no day does, else << exit time >>
RECURSIVE ScanDays(_, _, _, _)
ScanDays(action, trade_data, target_price, days) ==
    IF days = {} THEN << >>
    ELSE LET date == SetMin(days)
             daily_data == SelectSeq(trade_data, LAMBDA b : DayOf(b.Datetime) = date)
         IN  IF DayHits(action, daily_data, target_price)
             THEN << HitRows(action, daily_data, target_price)[1].Datetime >>
             ELSE ScanDays(action, trade_data, target_price, days \ {date})

TargetReason == "Profit target reached"
TimeReason == "Time-based exit"

EntryRowsStrict(series, entry_time) == SelectSeq(series, LAMBDA b : b.Datetime > entry_time)

\* market_data.loc[entry_mask]
EntryRows(series, entry_time) == SelectSeq(series, LAMBDA b : b.Datetime >= entry_time)

ExitRowsStrict(series, max_exit_time) == SelectSeq(series, LAMBDA b : b.Datetime > max_exit_time)

\* market_data.loc[exit_mask]
ExitRows(series, max_exit_time) == SelectSeq(series, LAMBDA b : b.Datetime >= max_exit_time)

TradeDataBeforeHorizon(series, actual_entry_time, max_exit_time) ==
    SelectSeq(series, LAMBDA b : b.Datetime >= actual_entry_time /\ b.Datetime < max_exit_time)

\* the bars the target scan looks at
TradeData(series, actual_entry_time, max_exit_time) ==
    SelectSeq(series, LAMBDA b : b.Datetime >= actual_entry_time /\ b.Datetime <= max_exit_time)

MaxExitTime(entry_time, days) == entry_time + DaysDelta(days)

ExitReason(exit_price, target_price) ==
    IF exit_price = target_price THEN TargetReason ELSE TimeReason

Raise(msg) == [error |-> msg, trade |-> << >>, position |-> << >>]

FeesEntryOnly(entry_value, exit_value) == entry_value * FeeNum

\* entry_fee + exit_fee, in units of 1 / FeeDen
Fees(entry_value, exit_value) == entry_value * FeeNum + exit_value * FeeNum

PnlLongOnly(action, entry_value, exit_value, fees) == (exit_value - entry_value) * FeeDen - fees

\* pnl, in units of 1 / FeeDen
Pnl(action, entry_value, exit_value, fees) ==
    IF action = "BUY"
    THEN (exit_value - entry_value) * FeeDen - fees
    ELSE (entry_value - exit_value) * FeeDen - fees

\* pnl_pct, the fraction num / den
PnlPct(action, entry_price, exit_price) ==
    IF action = "BUY"
    THEN [num |-> (exit_price - entry_price) * 100, den |-> entry_price]
    ELSE [num |-> (entry_price - exit_price) * 100, den |-> entry_price]

RaiseNoExitPositionKept(ticker, action, position_size, agent_name, reasoning, entry_row) ==
    [error |-> "No data available at or after exit time",
     trade |-> << >>,
     position |-> << [entry_time |-> entry_row.Datetime, entry_price |-> entry_row.Close,
                      position_size |-> position_size,
                      direction |-> IF action = "BUY" THEN "LONG" ELSE "SHORT",
                      ticker |-> ticker, agent_name |-> agent_name,
                      reasoning |-> reasoning] >>]

\* the exception raised for want of a time-limit bar: the entry is resolved, but
\* neither the position nor a trade is recorded yet
RaiseNoExit(ticker, action, position_size, agent_name, reasoning, entry_row) ==
    Raise("No data available at or after exit time")

\* the part of execute_trade that follows the entry bar
CloseTrade(ticker, action, series, position_size, agent_name, reasoning, p, max_exit_time, entry_row) ==
    LET entry_price == entry_row.Close
        actual_entry_time == entry_row.Datetime
        target_price == TargetPrice(action, entry_price, p)
        trade_data == TradeData(series, actual_entry_time, max_exit_time)
        found == ScanDays(action, trade_data, target_price,
                          Dates(trade_data))
        exit_rows == ExitRows(series, max_exit_time)
    IN  IF found = << >> /\ exit_rows = << >>
        THEN RaiseNoExit(ticker, action, position_size, agent_name, reasoning, entry_row)
        ELSE
        LET exit_price == IF found # << >> THEN target_price ELSE exit_rows[1].Close
            actual_exit_time == IF found # << >> THEN found[1] ELSE exit_rows[1].Datetime
            entry_value == entry_price * position_size
            exit_value == exit_price * position_size
            fees == Fees(entry_value, exit_value)
            pnl == Pnl(action, entry_value, exit_value, fees)
            pnl_pct == PnlPct(action, entry_price, exit_price)
            direction == IF action = "BUY" THEN "LONG" ELSE "SHORT"
            position == [entry_time |-> actual_entry_time, entry_price |-> entry_price,
                         position_size |-> position_size, direction |-> direction,
                         ticker |-> ticker, agent_name |-> agent_name,
                         reasoning |-> reasoning]
        IN  [error |-> "",
             trade |-> << [entry_time |-> actual_entry_time,
                           exit_time |-> actual_exit_time,
                           entry_price |-> entry_price,
                           exit_price |-> exit_price,
                           position_size |-> position_size,
                           direction |-> direction,
                           ticker |-> ticker,
                           fees |-> fees,
                           pnl |-> pnl,
                           pnl_pct |-> pnl_pct,
                           agent_name |-> agent_name,
                           reasoning |-> reasoning,
                           exit_reason |-> ExitReason(exit_price, target_price)] >>,
             position |-> << position >>]

DatetimeDtype == "datetime64"
ObjectDtype == "object"

\* the statements before the conversion of the Datetime column raise nothing
ReachesConversion(ref, expected_timeframe) ==
    /\ ref # None
    /\ EndsWith(expected_timeframe, "d")
    /\ IntParses(DropLast(expected_timeframe))

\* market_data['Datetime'] = pd.to_datetime(market_data['Datetime']) on the
\* caller's frame when the column is not a datetime column already
DtypeAfterExecute(ref, expected_timeframe, dtype) ==
    IF ReachesConversion(ref, expected_timeframe) /\ dtype # DatetimeDtype
    THEN DatetimeDtype
    ELSE dtype

\* execute_trade as a function of the framework's reference_date and its
\* arguments: what it raises, the TradeResult it appends and the position it records
ExecuteTrade(ref, ticker, action, series, position_size, agent_name, reasoning, expected_timeframe, p) ==
    IF ref = None THEN Raise("reference_date must be set to execute trades")
    ELSE IF ~EndsWith(expected_timeframe, "d") THEN Raise("Unsupported timeframe format")
    ELSE IF ~IntParses(DropLast(expected_timeframe)) THEN Raise("invalid literal for int()")
    ELSE
    LET days == IntValue(DropLast(expected_timeframe))
        entry_time == ref[1]
        max_exit_time == MaxExitTime(entry_time, days)
        entry_rows == EntryRows(series, entry_time)
    IN  IF entry_rows = << >> THEN Raise("No data available at or after entry time")
        ELSE CloseTrade(ticker, action, series, position_size, agent_name,
                        reasoning, p, max_exit_time, entry_rows[1])

----------------------------------------------------------------------------
(* Metrics: every value is kept in hundredths, i.e. as round(x, 2) * 100 *)

\* round(num / den, 2) * 100 for den > 0, ties to even
Round2(num, den) ==
    LET n == num * 100
        q == n \div den
        r == n - q * den
    IN  IF 2 * r < den THEN q
        ELSE IF 2 * r > den THEN q + 1
        ELSE IF q % 2 = 0 THEN q ELSE q + 1

\* a <= b for fractions with positive denominators
FracLeq(a, b) == a.num * b.den <= b.num * a.den

Abs(x) == IF x < 0 THEN 0 - x ELSE x

RECURSIVE GCD(_, _)
GCD(a, b) == IF b = 0 THEN a ELSE GCD(b, a % b)

\* the same fraction in lowest terms
Reduced(f) ==
    LET g == GCD(Abs(f.num), f.den) IN [num |-> f.num \div g, den |-> f.den \div g]

RECURSIVE SumFrac(_)
SumFrac(fs) ==
    IF fs = << >> THEN [num |-> 0, den |-> 1]
    ELSE LET rest == SumFrac(Tail(fs))
             h == Reduced(Head(fs))
         IN  Reduced([num |-> h.num * rest.den + rest.num * h.den,
                      den |-> h.den * rest.den])

Returns(ts) == [i \in 1..Len(ts) |-> ts[i].pnl_pct]

CalculateWinRateBeforeFees(ts) ==
    IF ts = << >> THEN 0
    ELSE Round2(Cardinality({i \in 1..Len(ts) : ts[i].pnl_pct.num > 0}) * 100, Len(ts))

CalculateWinRate(ts) ==
    IF ts = << >> THEN 0
    ELSE Round2(Cardinality({i \in 1..Len(ts) : ts[i].pnl > 0}) * 100, Len(ts))

CalculateAvgReturn(ts) ==
    IF ts = << >> THEN 0
    ELSE LET total == SumFrac(Returns(ts)) IN Round2(total.num, total.den * Len(ts))

CalculateMaxLoss(ts) ==
    IF ts = << >> THEN 0
    ELSE LET rs == Returns(ts)
             m == CHOOSE i \in 1..Len(rs) : \A j \in 1..Len(rs) : FracLeq(rs[i], rs[j])
         IN  Round2(rs[m].num, rs[m].den)

CalculateMaxGain(ts) ==
    IF ts = << >> THEN 0
    ELSE LET rs == Returns(ts)
             m == CHOOSE i \in 1..Len(rs) : \A j \in 1..Len(rs) : FracLeq(rs[j], rs[i])
         IN  Round2(rs[m].num, rs[m].den)

InitialMetricsSentinel(responses) ==
    [total_trades |-> Len(responses), win_rate |-> 0, avg_return |-> 0,
     max_loss |-> 100 * 100, max_gain |-> 0 - 100 * 100]

InitialMetrics(responses) ==
    [total_trades |-> Len(responses), win_rate |-> 0, avg_return |-> 0,
     max_loss |-> 0, max_gain |-> 0]

FinalMetrics(m, ts) ==
    IF ts # << >>
    THEN [m EXCEPT !.win_rate = CalculateWinRate(ts),
                   !.avg_return = CalculateAvgReturn(ts),
                   !.max_loss = CalculateMaxLoss(ts),
                   !.max_gain = CalculateMaxGain(ts)]
    ELSE m

----------------------------------------------------------------------------
(* run_backtest *)

\* the body of the loop over agent_responses for one response: the checks
\* that `continue`, then execute_trade inside try / except
LoopBody(ref, data, response) ==
    IF ~(\A key \in RequiredKeys : HasKey(response, key))
    THEN Raise("Missing required fields in response")
    ELSE IF response.ticker \notin DOMAIN data
    THEN Raise("No market data for ticker")
    ELSE IF data[response.ticker] = << >>
    THEN Raise("Empty market data for ticker")
    ELSE IF ~HasKey(response, "expected_profit_percentage")
    THEN Raise("KeyError: expected_profit_percentage")
    ELSE ExecuteTrade(ref, response.ticker, response.action, data[response.ticker],
                      response.amount, Get(response, "persona", "unknown"),
                      Get(response, "reasoning", ""), response.expected_timeframe,
                      response.expected_profit_percentage)

\* the dtypes of the frames of market_data after the loop body for one response
DtypesAfterLoopBody(ref, data, dtypes, response) ==
    IF /\ \A key \in RequiredKeys : HasKey(response, key)
       /\ response.ticker \in DOMAIN data
       /\ data[response.ticker] # << >>
       /\ HasKey(response, "expected_profit_percentage")
    THEN [dtypes EXCEPT ![response.ticker] =
             DtypeAfterExecute(ref, response.expected_timeframe, @)]
    ELSE dtypes

NoPositions == [t \in {} |-> << >>]

\* self.current_positions[ticker] = position
RecordPosition(positions, outcome) ==
    IF outcome.position = << >> THEN positions
    ELSE LET pos == outcome.position[1]
         IN  [t \in DOMAIN positions \cup {pos.ticker} |->
                 IF t = pos.ticker THEN pos ELSE positions[t]]

\* a list object handed out earlier and still bound to self.trades sees the append
HeldAfterAppend(h, outcome) ==
    IF h # << >> /\ h[1].alias
    THEN << [h[1] EXCEPT !.trades = @ \o outcome.trade] >>
    ELSE h

\* self.trades = [] binds a new list object: a list handed out earlier keeps
\* its contents and is no longer the framework's
HeldAfterReset(h) ==
    IF h = << >> THEN h ELSE << [h[1] EXCEPT !.alias = FALSE] >>

AppendTradeAccumulating(ts, outcome) ==
    ts \o [k \in 1..Len(outcome.trade) |->
             [outcome.trade[k] EXCEPT !.position_size = @ + Len(ts)]]

KeepLatestTrade(ts, outcome) == IF outcome.trade = << >> THEN ts ELSE outcome.trade

PrependTrade(ts, outcome) == outcome.trade \o ts

\* self.trades.append(result)
AppendTrade(ts, outcome) == ts \o outcome.trade

LoopStopsOnError(outcome) == outcome.error = ""

\* whether the loop goes on to the next response after this outcome
LoopContinues(outcome) == TRUE

StartBacktestKeepsTrades ==
    /\ pc = "idle"
    /\ metrics' = InitialMetrics(agent_responses)
    /\ idx' = 0
    /\ result' = Raise("")
    /\ pc' = "loop"
    /\ UNCHANGED <<reference_date, market_data, agent_responses, trades,
                   current_positions, raw_data, forward_days, lookback_days,
                   decision_data, report, held, runs, datetime_dtype>>

StartBacktest ==
    /\ pc = "idle"
    /\ trades' = << >>
    /\ current_positions' = NoPositions
    /\ metrics' = InitialMetrics(agent_responses)
    /\ idx' = 0
    /\ result' = Raise("")
    /\ pc' = "loop"
    /\ held' = HeldAfterReset(held)
    /\ UNCHANGED <<reference_date, market_data, agent_responses, raw_data,
                   forward_days, lookback_days, decision_data, report, runs, datetime_dtype>>

ProcessResponse ==
    /\ pc = "loop"
    /\ idx < Len(agent_responses)
    /\ LET outcome == LoopBody(reference_date, market_data, agent_responses[idx + 1])
       IN  /\ result' = outcome
           /\ trades' = AppendTrade(trades, outcome)
           /\ current_positions' = RecordPosition(current_positions, outcome)
           /\ idx' = IF LoopContinues(outcome) THEN idx + 1 ELSE Len(agent_responses)
           /\ held' = HeldAfterAppend(held, outcome)
    /\ datetime_dtype' = DtypesAfterLoopBody(reference_date, market_data, datetime_dtype,
                                             agent_responses[idx + 1])
    /\ UNCHANGED <<reference_date, market_data, agent_responses, metrics, pc, raw_data,
                   forward_days, lookback_days, decision_data, report, runs>>

FinishBacktest ==
    /\ pc = "loop"
    /\ idx = Len(agent_responses)
    /\ metrics' = FinalMetrics(metrics, trades)
    /\ pc' = "returned"
    /\ UNCHANGED <<reference_date, market_data, agent_responses, trades,
                   current_positions, idx, result, raw_data, forward_days,
                   lookback_days, decision_data, report, held, runs, datetime_dtype>>

----------------------------------------------------------------------------
(* generate_report *)

\* strftime('%Y-%m-%d %H:%M:%S'): the calendar date and the time of day
FormatTime(t) == [date |-> DayOf(t), time |-> t % SlotsPerDay]

FormatTrade(trade) ==
    [ticker |-> trade.ticker,
     direction |-> trade.direction,
     entry_time |-> FormatTime(trade.entry_time),
     exit_time |-> FormatTime(trade.exit_time),
     entry_price |-> trade.entry_price,
     exit_price |-> trade.exit_price,
     position_size |-> trade.position_size,
     agent |-> trade.agent_name,
     exit_reason |-> trade.exit_reason]

GenerateReportOf(ts) ==
    [total_trades |-> Len(ts),
     win_rate |-> CalculateWinRate(ts),
     avg_return |-> CalculateAvgReturn(ts),
     max_loss |-> CalculateMaxLoss(ts),
     max_gain |-> CalculateMaxGain(ts),
     trade_log |-> [i \in 1..Len(ts) |-> FormatTrade(ts[i])]]

NoReport == << >>

GenerateReport ==
    /\ pc = "returned"
    /\ report' = << GenerateReportOf(trades) >>
    /\ pc' = "reported"
    /\ UNCHANGED <<reference_date, market_data, agent_responses, trades,
                   current_positions, metrics, idx, result, raw_data, forward_days,
                   lookback_days, decision_data, held, runs, datetime_dtype>>

----------------------------------------------------------------------------
(* The framework driven directly: run_backtest on a series and a batch *)

NoData == [t \in {} |-> << >>]

RefDates == { << 0 >>, << 1 >> }

RECURSIVE SeqsUpTo(_, _)
SeqsUpTo(S, n) ==
    IF n = 0 THEN { << >> }
    ELSE LET shorter == SeqsUpTo(S, n - 1)
         IN  shorter \cup { Append(q, x) : q \in { r \in shorter : Len(r) = n - 1 }, x \in S }

BatchSeries == { << >>, << MkBar(0, 1), MkBar(1, 2), MkBar(2, 3) >> }

SingleDecisions == { d \in GoodDecisions : d.expected_profit_percentage > 0 }

\* one simulatable-looking decision against every series
InitSingle ==
    /\ market_data \in { [AAA |-> series] : series \in AllSeries }
    /\ reference_date \in RefDates
    /\ agent_responses \in { << d >> : d \in SingleDecisions }
    /\ datetime_dtype = [AAA |-> DatetimeDtype]

\* batches of good and bad decisions against a few series
InitBatch ==
    /\ market_data \in { [AAA |-> series] : series \in BatchSeries }
    /\ reference_date \in { None, << 0 >> }
    /\ agent_responses \in SeqsUpTo(Decisions, MaxBatch)
    /\ datetime_dtype = [AAA |-> DatetimeDtype]

\* a bar that trades at one price, c price steps of PDen
ThinBar(t, c) ==
    [Datetime |-> t, High |-> c * PDen, Low |-> c * PDen, Close |-> c * PDen]

\* series whose move over one day is about the size of the two fees
ThinSeries ==
    { << ThinBar(0, 999), ThinBar(SlotsPerDay, 1001) >>,
      << ThinBar(0, 1000), ThinBar(SlotsPerDay, 1001) >>,
      << MkBar(0, 1), MkBar(1, 2), MkBar(SlotsPerDay, 3) >> }

\* decisions of every sign of amount
SizedDecisions ==
    { [ticker |-> "AAA", action |-> a, amount |-> m,
       expected_timeframe |-> TF("1"), expected_profit_percentage |-> 1] :
         a \in {"BUY", "SELL"}, m \in {0 - 1, 0, 1, 2} }

\* batches of decisions of several sizes against series with small moves
InitSized ==
    /\ market_data \in { [AAA |-> series] : series \in ThinSeries }
    /\ reference_date = << 0 >>
    /\ agent_responses \in SeqsUpTo(SizedDecisions, MaxBatch)
    /\ datetime_dtype = [AAA |-> DatetimeDtype]

\* decisions that no validator has seen: any action, any integer of days
UnvalidatedDecisions ==
    { [ticker |-> "AAA", action |-> a, amount |-> 1,
       expected_timeframe |-> tf, expected_profit_percentage |-> 1] :
         a \in {"BUY", "SELL", "SHORT", "PUT", "HOLD"},
         tf \in {TF("1"), TF("0"), << "-", "1", "d" >>} }

\* one such decision, with the reference date at the start or inside the series
InitUnvalidated ==
    /\ market_data = [AAA |-> << MkBar(0, 1), MkBar(1, 2), MkBar(SlotsPerDay, 3) >>]
    /\ reference_date \in { << 0 >>, << SlotsPerDay >> }
    /\ agent_responses \in { << d >> : d \in UnvalidatedDecisions }
    /\ datetime_dtype = [AAA |-> DatetimeDtype]

InitFramework ==
    /\ trades = << >>
    /\ current_positions = NoPositions
    /\ metrics = InitialMetrics(<< >>)
    /\ idx = 0
    /\ result = Raise("")
    /\ pc = "idle"
    /\ report = NoReport
    /\ held = << >>
    /\ runs = 1

Init ==
    /\ InitSingle \/ InitBatch \/ InitSized \/ InitUnvalidated
    /\ InitFramework
    /\ raw_data = NoData
    /\ decision_data = NoData
    /\ forward_days = 0
    /\ lookback_days = 0

Next ==
    \/ StartBacktest
    \/ ProcessResponse
    \/ FinishBacktest
    \/ GenerateReport

Spec == Init /\ [][Next]_vars

----------------------------------------------------------------------------
(* TradingSystemRunner.run_historical_test for one persona *)

\* MarketDataCollector.get_historical_data: rows in [start_date, end_date],
\* tickers with no row left are dropped
GetHistoricalData(files, start_date, end_date) ==
    LET filtered(t) == SelectSeq(files[t], LAMBDA b : b.Datetime >= start_date
                                                  /\ b.Datetime <= end_date)
    IN  [t \in { u \in DOMAIN files : filtered(u) # << >> } |-> filtered(t)]

InSliceInclusive(t, start_date, end_date) == t >= start_date /\ t <= end_date

\* the mask of _slice_market_data
InSlice(t, start_date, end_date) == t >= start_date /\ t < end_date

\* _slice_market_data: [error, data]
SliceMarketData(data, start_date, end_date) ==
    IF DOMAIN data = {} THEN [error |-> "No market data provided", data |-> NoData]
    ELSE IF end_date <= start_date
    THEN [error |-> "end_date must be after start_date", data |-> NoData]
    ELSE
    LET filtered(t) == SelectSeq(data[t], LAMBDA b : InSlice(b.Datetime, start_date, end_date))
        kept == { t \in DOMAIN data : data[t] # << >> /\ Len(filtered(t)) >= MinDataPoints }
    IN  IF kept = {} THEN [error |-> "No valid data after filtering", data |-> NoData]
        ELSE [error |-> "", data |-> [t \in kept |-> filtered(t)]]

DataStart(ref, lookback) == ref - DaysDelta(lookback)

DataEndLate(ref, forward) == ref + DaysDelta(forward + 1)

DataEnd(ref, forward) == ref + DaysDelta(forward)

ValidActions == {"BUY", "SELL", "SHORT", "PUT"}

\* LLMResponseValidator.validate_trading_decision: TRUE when it returns the response
ValidateTradingDecision(response, available_tickers) ==
    /\ \A f \in {"action", "ticker", "amount", "expected_timeframe",
                 "expected_profit_percentage"} : HasKey(response, f)
    /\ response.action \in ValidActions
    /\ response.ticker \in available_tickers
    /\ response.amount > 0
    /\ 0 <= response.expected_profit_percentage
    /\ response.expected_profit_percentage <= 100 * PDen
    /\ \/ EndsWith(response.expected_timeframe, "d")
       \/ EndsWith(response.expected_timeframe, "w")
       \/ EndsWith(response.expected_timeframe, "m")

LookbackChoices == {4, 5}
ForwardChoices == {4, 5, 6}
HistRef == 5 * SlotsPerDay
HistLast == HistRef + 7 * SlotsPerDay

\* what the decision source may answer
HistCandidates ==
    { [ticker |-> "AAA", action |-> a, amount |-> 1,
       expected_timeframe |-> tf, expected_profit_percentage |-> p] :
         a \in {"BUY", "SELL"},
         tf \in {TF("1"), TF("5"), TF("7"), << "1", "w" >>},
         p \in {1, 2} }
    \cup
    { [ticker |-> "AAA", action |-> "HOLD", amount |-> 1,
       expected_timeframe |-> TF("1"), expected_profit_percentage |-> 1],
      [ticker |-> "AAA", action |-> "BUY", amount |-> 0,
       expected_timeframe |-> TF("1"), expected_profit_percentage |-> 1] }

\* the stored hourly file of the ticker: a bar in every slot but `gap`, all flat
\* but the one at `special`, which has shape `shape`
HistFile(special, shape, gap) ==
    BuildSeries([t \in 0..HistLast |->
                    IF t = gap THEN 0 ELSE IF t = special THEN shape ELSE 1], 0, HistLast)

HistFiles ==
    { HistFile(special, shape, gap) :
        special \in (HistRef - 1)..(HistRef + 3) \cup {HistRef + 5 * SlotsPerDay - 1},
        shape \in 2..Len(Shapes),
        gap \in {HistLast + 1, HistRef, HistRef + 1, HistRef + 2} }

WithPersona(decision, persona) ==
    [k \in DOMAIN decision \cup {"persona"} |->
        IF k = "persona" THEN persona ELSE decision[k]]

\* one pass of the loop over persona files: the two slices, the decision of the
\* persona, and the start of run_backtest on the validation slice
HistoricalTest ==
    /\ pc = "idle"
    /\ LET ref == reference_date[1]
           loaded == GetHistoricalData(raw_data, DataStart(ref, lookback_days),
                                       DataEnd(ref, forward_days))
           decision == SliceMarketData(loaded, DataStart(ref, lookback_days), ref)
           validation == SliceMarketData(loaded, ref, DataEnd(ref, forward_days))
       IN  IF decision.error # "" \/ validation.error # ""
           THEN /\ pc' = "skipped"
                /\ UNCHANGED <<market_data, agent_responses, trades, current_positions,
                               metrics, idx, result, decision_data, datetime_dtype>>
           ELSE \E d \in HistCandidates :
                /\ ValidateTradingDecision(d, DOMAIN decision.data)
                /\ decision_data' = decision.data
                /\ market_data' = validation.data
                /\ datetime_dtype' = [t \in DOMAIN validation.data |-> DatetimeDtype]
                /\ agent_responses' = << WithPersona(d, "persona") >>
                /\ trades' = << >>
                /\ current_positions' = NoPositions
                /\ metrics' = InitialMetrics(agent_responses')
                /\ idx' = 0
                /\ result' = Raise("")
                /\ pc' = "loop"
    /\ UNCHANGED <<reference_date, raw_data, forward_days, lookback_days, report,
                   held, runs>>

HistInit ==
    /\ raw_data \in { [AAA |-> file] : file \in HistFiles }
    /\ reference_date = << HistRef >>
    /\ lookback_days \in LookbackChoices
    /\ forward_days \in ForwardChoices
    /\ market_data = NoData
    /\ decision_data = NoData
    /\ agent_responses = << >>
    /\ datetime_dtype = [t \in {} |-> DatetimeDtype]
    /\ InitFramework

HistNext ==
    \/ HistoricalTest
    \/ ProcessResponse
    \/ FinishBacktest
    \/ GenerateReport

HistSpec == HistInit /\ [][HistNext]_vars

----------------------------------------------------------------------------
(* One framework instance used again and again: direct execute_trade calls *)
(* and one run_backtest after the other, as the loop over personas does    *)

LifeSeries == << MkBar(0, 1), MkBar(1, 2), MkBar(SlotsPerDay, 3) >>

LifeDecisions ==
    { [ticker |-> "AAA", action |-> "BUY", amount |-> 1,
       expected_timeframe |-> TF("1"), expected_profit_percentage |-> 1],
      [ticker |-> "AAA", action |-> "SELL", amount |-> 1,
       expected_timeframe |-> TF("1"), expected_profit_percentage |-> 1],
      [ticker |-> "AAA", action |-> "BUY", amount |-> 1,
       expected_timeframe |-> << "1", "w" >>, expected_profit_percentage |-> 1] }

LifeBatches == SeqsUpTo(LifeDecisions, MaxBatch)

\* a call of execute_trade from outside run_backtest: an exception leaves the
\* framework as it was
DirectExecute ==
    /\ pc = "idle"
    /\ Len(trades) < MaxBatch
    /\ \E d \in LifeDecisions :
          LET outcome == ExecuteTrade(reference_date, d.ticker, d.action,
                                      market_data[d.ticker], d.amount, "unknown", "",
                                      d.expected_timeframe, d.expected_profit_percentage)
          IN  /\ trades' = AppendTrade(trades, outcome)
              /\ current_positions' = RecordPosition(current_positions, outcome)
              /\ held' = HeldAfterAppend(held, outcome)
              /\ datetime_dtype' =
                    [datetime_dtype EXCEPT ![d.ticker] =
                        DtypeAfterExecute(reference_date, d.expected_timeframe, @)]
    /\ UNCHANGED <<reference_date, market_data, agent_responses, metrics, idx, result,
                   pc, raw_data, forward_days, lookback_days, decision_data, report, runs>>

\* the caller keeps the (metrics, trades) it was returned, the list being the
\* object self.trades still names, and sets up the next run
NextRun ==
    /\ pc = "returned"
    /\ runs < MaxRuns
    /\ held' = << [responses |-> agent_responses, metrics |-> metrics,
                   trades |-> trades, alias |-> TRUE] >>
    /\ agent_responses' \in LifeBatches
    /\ runs' = runs + 1
    /\ pc' = "idle"
    /\ UNCHANGED <<reference_date, market_data, trades, current_positions, metrics,
                   idx, result, raw_data, forward_days, lookback_days, decision_data,
                   report, datetime_dtype>>

LifeInit ==
    /\ market_data = [AAA |-> LifeSeries]
    /\ reference_date = << 0 >>
    /\ agent_responses \in LifeBatches
    /\ datetime_dtype \in { [AAA |-> dtype] : dtype \in {DatetimeDtype, ObjectDtype} }
    /\ InitFramework
    /\ raw_data = NoData
    /\ decision_data = NoData
    /\ forward_days = 0
    /\ lookback_days = 0

LifeNext ==
    \/ DirectExecute
    \/ StartBacktest
    \/ ProcessResponse
    \/ FinishBacktest
    \/ NextRun

LifeSpec == LifeInit /\ [][LifeNext]_vars

----------------------------------------------------------------------------
(* What the claims say of one decision r of the batch *)

SeriesOf(r) == market_data[r.ticker]

\* the loop body gets as far as calling execute_trade
Reached(r) ==
    /\ \A key \in RequiredKeys : HasKey(r, key)
    /\ HasKey(r, "expected_profit_percentage")
    /\ r.ticker \in DOMAIN market_data
    /\ market_data[r.ticker] # << >>

\* holding_days is readable from the timeframe
Parsable(tf) == EndsWith(tf, "d") /\ IntParses(DropLast(tf))

RefTime == reference_date[1]
HorizonOf(r) == RefTime + IntValue(DropLast(r.expected_timeframe)) * SlotsPerDay

\* indices of the bars at or after an instant, and the earliest of a set of bars
AtOrAfter(series, t) == { i \in 1..Len(series) : series[i].Datetime >= t }
Earliest(series, I) == CHOOSE i \in I : \A j \in I : series[i].Datetime <= series[j].Datetime

EntryBarOf(r) == SeriesOf(r)[Earliest(SeriesOf(r), AtOrAfter(SeriesOf(r), RefTime))]
TargetOf(r) == TargetPrice(r.action, EntryBarOf(r).Close, r.expected_profit_percentage)
WindowOf(r) ==
    { i \in 1..Len(SeriesOf(r)) : /\ SeriesOf(r)[i].Datetime >= EntryBarOf(r).Datetime
                                  /\ SeriesOf(r)[i].Datetime <= HorizonOf(r) }
QualifiesFor(r, b) == IF r.action = "BUY" THEN b.High >= TargetOf(r) ELSE b.Low <= TargetOf(r)
QualifyingOf(r) == { i \in WindowOf(r) : QualifiesFor(r, SeriesOf(r)[i]) }

\* execute_trade is called for r with a reference date and a readable horizon
SimulatedFor(r) ==
    /\ reference_date # None
    /\ Reached(r)
    /\ Parsable(r.expected_timeframe)
    /\ IsSorted(SeriesOf(r))

\* r can be simulated: it has an entry bar, and a target bar or a time-limit bar
Simulatable(r) ==
    /\ SimulatedFor(r)
    /\ AtOrAfter(SeriesOf(r), RefTime) # {}
    /\ \/ QualifyingOf(r) # {}
       \/ AtOrAfter(SeriesOf(r), HorizonOf(r)) # {}

(* The decision the loop consumed last *)

Cur == agent_responses[idx]
CurSeries == SeriesOf(Cur)
Simulated == pc \in {"loop", "returned", "reported"} /\ idx >= 1 /\ SimulatedFor(Cur)
HorizonTime == HorizonOf(Cur)
EntryBar == EntryBarOf(Cur)
Target == TargetOf(Cur)
Window == WindowOf(Cur)
Qualifying == QualifyingOf(Cur)
Entered == Simulated /\ AtOrAfter(CurSeries, RefTime) # {}
Produced == result.trade # << >>
Trade == result.trade[1]

\* C1: on a sorted series with reference_date set, a trade enters at the first
\* bar with Datetime >= reference_date, at its Close; when no such bar exists the
\* call fails for lack of data and no trade is produced
C1_EntryAtFirstBar ==
    Simulated =>
        IF AtOrAfter(CurSeries, RefTime) = {}
        THEN /\ ~Produced
             /\ result.error = "No data available at or after entry time"
             /\ Len(trades) < idx
        ELSE Produced =>
                /\ Trade.entry_time = EntryBar.Datetime
                /\ Trade.entry_price = EntryBar.Close
                /\ Trade.entry_time >= RefTime
                /\ trades[Len(trades)] = Trade

C1_Witness ==
    /\ Simulated /\ Produced
    /\ CurSeries[1].Datetime < RefTime
    /\ AtOrAfter(CurSeries, RefTime) # {}
    /\ Trade.entry_time = RefTime
    /\ Trade.entry_price # CurSeries[1].Close

\* C2: when some bar of the window [entry_time, max_exit_time] satisfies the
\* target condition, the trade closes at the target price at the earliest such
\* bar of the whole window
C2_EarliestQualifyingBar ==
    (Entered /\ Qualifying # {}) =>
        /\ Produced
        /\ Trade.exit_price = Target
        /\ Trade.exit_time = CurSeries[Earliest(CurSeries, Qualifying)].Datetime

C2_Witness ==
    /\ Entered /\ Produced
    /\ \E i, j \in Qualifying :
          /\ i < j
          /\ DayOf(CurSeries[i].Datetime) = DayOf(CurSeries[j].Datetime)
          /\ Trade.exit_time = CurSeries[i].Datetime
    /\ Trade.exit_time > Trade.entry_time
    /\ DayOf(Trade.exit_time) > DayOf(Trade.entry_time)

\* C3: when no bar of the window satisfies the target condition, the trade exits
\* at the first bar with Datetime >= max_exit_time, at its Close; without such a
\* bar the call fails for lack of data and no trade is produced
C3_TimeLimitExit ==
    (Entered /\ Qualifying = {}) =>
        IF AtOrAfter(CurSeries, HorizonTime) = {}
        THEN /\ ~Produced
             /\ result.error = "No data available at or after exit time"
             /\ Len(trades) < idx
        ELSE LET x == CurSeries[Earliest(CurSeries, AtOrAfter(CurSeries, HorizonTime))]
             IN  /\ Produced
                 /\ Trade.exit_time = x.Datetime
                 /\ Trade.exit_price = x.Close

C3_Witness ==
    /\ Entered /\ Produced /\ Qualifying = {}
    /\ Trade.exit_time = HorizonTime
    /\ Trade.exit_price # Trade.entry_price

\* C4: exit_reason is the target-hit reason exactly when the scan of the window
\* found a qualifying bar; a time-limit exit is labelled as such
C4_ReasonIffScanHit ==
    (Entered /\ Produced) =>
        /\ Trade.exit_reason \in {TargetReason, TimeReason}
        /\ (Trade.exit_reason = TargetReason) <=> (Qualifying # {})

\* C5: target comparisons are inclusive: a bar of the window whose High (LONG) or
\* Low (SHORT) equals the target closes the trade at the target no later than
\* that bar, and a bar strictly short of the target is never the bar of a target exit
Boundary(b) == IF Cur.action = "BUY" THEN b.High = Target ELSE b.Low = Target

C5_InclusiveTarget ==
    Entered =>
        /\ \A i \in Window :
              Boundary(CurSeries[i]) =>
                 /\ Produced
                 /\ Trade.exit_price = Target
                 /\ Trade.exit_time <= CurSeries[i].Datetime
        /\ (Qualifying = { i \in Window : Boundary(CurSeries[i]) } /\ Cardinality(Qualifying) = 1)
              => /\ Produced
                 /\ Trade.exit_time = CurSeries[CHOOSE i \in Qualifying : TRUE].Datetime
        /\ \A i \in Window \ Qualifying :
              ~(Produced /\ Qualifying # {} /\ Trade.exit_time = CurSeries[i].Datetime)

C5_WitnessLong ==
    /\ Entered /\ Produced /\ Cur.action = "BUY"
    /\ Cur.expected_profit_percentage > 0
    /\ Cardinality(Qualifying) = 1
    /\ \A i \in Qualifying : Boundary(CurSeries[i]) /\ Trade.exit_time = CurSeries[i].Datetime
    /\ Trade.exit_time > Trade.entry_time

----------------------------------------------------------------------------
(* Batch runs *)

Returned == pc \in {"returned", "reported"}

\* the trade sequence of a run of the decision alone
Alone(r) == AppendTrade(<< >>, LoopBody(reference_date, market_data, r))

\* the decision is one of the kinds a batch skips
SkippedKind(r) ==
    \/ ~(\A key \in RequiredKeys : HasKey(r, key))
    \/ ~HasKey(r, "expected_profit_percentage")
    \/ r.ticker \notin DOMAIN market_data
    \/ market_data[r.ticker] = << >>
    \/ ~Parsable(r.expected_timeframe)
    \/ reference_date # None /\ AtOrAfter(SeriesOf(r), RefTime) = {}
    \/ /\ reference_date # None
       /\ AtOrAfter(SeriesOf(r), RefTime) # {}
       /\ QualifyingOf(r) = {}
       /\ AtOrAfter(SeriesOf(r), HorizonOf(r)) = {}

Occurrences(ts, t) == Cardinality({ k \in 1..Len(ts) : ts[k] = t })

\* C6: the loop never passes the end of the batch, so it consumes the next decision
\* or returns (metrics, trades); a decision of a skipped kind yields no trade, and
\* every decision yields in the batch exactly the trade it yields alone
C6_BadDecisionIsolated ==
    /\ pc = "loop" => idx <= Len(agent_responses)
    /\ Returned =>
          /\ idx = Len(agent_responses)
          /\ DOMAIN metrics = {"total_trades", "win_rate", "avg_return", "max_loss", "max_gain"}
          /\ \A i \in 1..Len(agent_responses) :
                LET r == agent_responses[i]
                IN  /\ SkippedKind(r) => Alone(r) = << >>
                    /\ \A k \in 1..Len(Alone(r)) :
                          Occurrences(trades, Alone(r)[k]) =
                             Cardinality({ j \in 1..Len(agent_responses) :
                                             Alone(agent_responses[j]) = Alone(r) })

C6_Witness ==
    /\ pc = "returned"
    /\ Len(agent_responses) = 2
    /\ SkippedKind(agent_responses[1])
    /\ ~HasKey(agent_responses[1], "expected_timeframe")
    /\ Simulatable(agent_responses[2])
    /\ Len(trades) = 1

\* the index of the k-th decision that can be simulated
KthSimulatable(k) ==
    CHOOSE i \in 1..Len(agent_responses) :
        /\ Simulatable(agent_responses[i])
        /\ Cardinality({ j \in 1..i : Simulatable(agent_responses[j]) }) = k

\* C7: the returned trade sequence is the sequence of the simulated decisions in
\* input order: its k-th trade is the trade of the k-th simulatable decision
C7_TradesInInputOrder ==
    Returned =>
        /\ Len(trades) = Cardinality({ i \in 1..Len(agent_responses) :
                                         Simulatable(agent_responses[i]) })
        /\ \A k \in 1..Len(trades) : << trades[k] >> = Alone(agent_responses[KthSimulatable(k)])

C7_Witness ==
    /\ pc = "returned"
    /\ Len(trades) = 2
    /\ trades[1] # trades[2]
    /\ << trades[1] >> = Alone(agent_responses[1])
    /\ trades[1].direction = "SHORT" /\ trades[2].direction = "LONG"

----------------------------------------------------------------------------
(* The trade log of run_historical_test *)

\* the instant a formatted time stands for
ParseTime(f) == f.date * SlotsPerDay + f.time

TradeLog == IF report = NoReport THEN << >> ELSE report[1].trade_log

\* C8: no trade of the trade log is closed in the bar in which it was entered
C8_NoZeroDuration ==
    \A k \in 1..Len(TradeLog) : TradeLog[k].entry_time # TradeLog[k].exit_time

\* C9: every trade of the trade log lasts strictly more than one hour (one slot)
C9_DurationOverOneHour ==
    \A k \in 1..Len(TradeLog) :
        ParseTime(TradeLog[k].exit_time) - ParseTime(TradeLog[k].entry_time) > 1

\* C10: every trade of the trade log exits no later than reference_date +
\* forward_days, whatever horizon the decision asked for
C10_ExitWithinForwardPeriod ==
    /\ \A k \in 1..Len(TradeLog) :
          ParseTime(TradeLog[k].exit_time) <= RefTime + forward_days * SlotsPerDay
    /\ \A k \in 1..Len(trades) :
          trades[k].exit_time <= RefTime + forward_days * SlotsPerDay

C10_Witness ==
    /\ pc = "reported"
    /\ Len(TradeLog) = 1
    /\ IntValue(DropLast(agent_responses[1].expected_timeframe)) > forward_days
    /\ ParseTime(TradeLog[1].exit_time) = RefTime + forward_days * SlotsPerDay - 1

\* C11: every trade of the trade log has an exit price different from its entry price
C11_ExitPriceDiffers ==
    \A k \in 1..Len(TradeLog) : TradeLog[k].exit_price # TradeLog[k].entry_price

----------------------------------------------------------------------------
(* Fees, profit and loss of the trades of a run; fees and pnl are in units  *)
(* of 1 / FeeDen, fee_fraction is FeeNum / FeeDen                           *)

\* C12: whatever the direction and the exit reason,
\* fees = fee_fraction * (entry_price + exit_price) * position_size
C12_FeeSymmetry ==
    \A k \in 1..Len(trades) :
        trades[k].fees =
            FeeNum * (trades[k].entry_price + trades[k].exit_price) * trades[k].position_size

C12_Witness ==
    /\ pc = "returned"
    /\ Len(trades) = 2
    /\ trades[1].direction = "LONG" /\ trades[1].exit_reason = TargetReason
    /\ trades[2].direction = "SHORT" /\ trades[2].exit_reason = TimeReason
    /\ trades[1].position_size = 2 /\ trades[2].position_size = 2
    /\ trades[2].exit_price # trades[2].entry_price

\* C13: LONG: pnl = (exit - entry) * size - fees, pnl_pct = (exit / entry - 1) * 100;
\* SHORT: pnl = (entry - exit) * size - fees, pnl_pct = (1 - exit / entry) * 100;
\* trades of the same direction and prices have the same pnl_pct whatever their size
C13_PnlByDirection ==
    /\ \A k \in 1..Len(trades) :
          LET t == trades[k]
          IN  /\ t.direction \in {"LONG", "SHORT"}
              /\ t.direction = "LONG" =>
                    /\ t.pnl = (t.exit_price - t.entry_price) * t.position_size * FeeDen - t.fees
                    /\ t.pnl_pct.num * t.entry_price =
                          (t.exit_price - t.entry_price) * 100 * t.pnl_pct.den
              /\ t.direction = "SHORT" =>
                    /\ t.pnl = (t.entry_price - t.exit_price) * t.position_size * FeeDen - t.fees
                    /\ t.pnl_pct.num * t.entry_price =
                          (t.entry_price - t.exit_price) * 100 * t.pnl_pct.den
    /\ \A k, l \in 1..Len(trades) :
          (/\ trades[k].direction = trades[l].direction
           /\ trades[k].entry_price = trades[l].entry_price
           /\ trades[k].exit_price = trades[l].exit_price)
             => trades[k].pnl_pct.num * trades[l].pnl_pct.den =
                trades[l].pnl_pct.num * trades[k].pnl_pct.den

C13_Witness ==
    /\ pc = "returned"
    /\ Len(trades) = 2
    /\ trades[1].direction = "SHORT" /\ trades[2].direction = "SHORT"
    /\ trades[1].position_size = 1 /\ trades[2].position_size = 2
    /\ trades[1].pnl_pct.num < 0
    /\ trades[1].pnl_pct = trades[2].pnl_pct
    /\ trades[1].pnl # trades[2].pnl

\* C14: a LONG trade has pnl > 0 exactly when exit * (1 - f) > entry * (1 + f), a
\* SHORT trade exactly when entry * (1 - f) > exit * (1 + f)
C14_PnlSignLaw ==
    \A k \in 1..Len(trades) :
        LET t == trades[k]
        IN  IF t.direction = "LONG"
            THEN (t.pnl > 0) <=>
                    (t.exit_price * (FeeDen - FeeNum) > t.entry_price * (FeeDen + FeeNum))
            ELSE (t.pnl > 0) <=>
                    (t.entry_price * (FeeDen - FeeNum) > t.exit_price * (FeeDen + FeeNum))

\* C15: a run that produces no trade returns metrics whose win_rate, avg_return,
\* max_loss and max_gain are 0 and an empty trade sequence
C15_EmptyRunIsNeutral ==
    (pc \in {"loop", "returned", "reported"} /\ trades = << >>) =>
        /\ metrics.win_rate = 0 /\ metrics.avg_return = 0
        /\ metrics.max_loss = 0 /\ metrics.max_gain = 0
        /\ pc = "reported" => report[1].trade_log = << >>

C15_Witness ==
    /\ pc = "returned"
    /\ Len(agent_responses) = 2
    /\ market_data["AAA"] # << >>
    /\ reference_date # None
    /\ trades = << >>

Wins == Cardinality({ k \in 1..Len(trades) : trades[k].pnl > 0 })

\* C16: for a non-empty trade set win_rate is 100 * (trades with pnl > 0) / (trades
\* produced), rounded to 2 decimals (kept in hundredths), and lies in [0, 100]
C16_WinRateAfterFees ==
    (Returned /\ trades # << >>) =>
        /\ Abs(metrics.win_rate * Len(trades) - 100 * 100 * Wins) * 2 <= Len(trades)
        /\ metrics.win_rate >= 0 /\ metrics.win_rate <= 100 * 100

C16_Witness ==
    /\ pc = "returned"
    /\ Len(trades) = 2
    /\ trades[1].position_size = 1 /\ trades[2].position_size = 2
    /\ trades[1].pnl = 0 /\ trades[1].pnl_pct.num > 0
    /\ trades[2].pnl = 0 /\ trades[2].pnl_pct.num > 0
    /\ metrics.avg_return > 0
    /\ metrics.win_rate = 0

\* C18: a decision with amount <= 0 is skipped: no returned trade has a
\* non-positive position size
C18_NonPositiveSizeSkipped ==
    Returned => \A k \in 1..Len(trades) : trades[k].position_size > 0

\* C19: without a reference date execute_trade fails before reading any bar, and
\* a run in which a decision reaches execute_trade does not return a result
C19_MissingReferenceFails ==
    reference_date = None =>
        /\ (pc = "loop" /\ idx >= 1 /\ Reached(Cur)) =>
              /\ ~Produced
              /\ result.error = "reference_date must be set to execute trades"
        /\ (\E i \in 1..Len(agent_responses) : Reached(agent_responses[i])) => ~Returned

----------------------------------------------------------------------------
(* Runs and calls that follow one another on one framework *)

\* how many of the first i decisions can be simulated
Rank(responses, i) == Cardinality({ j \in 1..i : Simulatable(responses[j]) })

\* C17: decisions equal in every field, simulated on the same series with the
\* same reference date at different places of a run, or in this run and the run
\* before it, yield trades equal in every field
C17_SameInputsSameTrade ==
    Returned =>
        /\ \A i, j \in 1..Len(agent_responses) :
              (agent_responses[i] = agent_responses[j] /\ Simulatable(agent_responses[i]))
                 => trades[Rank(agent_responses, i)] = trades[Rank(agent_responses, j)]
        /\ held # << >> =>
              \A i \in 1..Len(held[1].responses), j \in 1..Len(agent_responses) :
                 (held[1].responses[i] = agent_responses[j] /\ Simulatable(agent_responses[j]))
                    => held[1].trades[Rank(held[1].responses, i)]
                          = trades[Rank(agent_responses, j)]

C17_Witness ==
    /\ pc = "returned" /\ runs = 2
    /\ Len(agent_responses) = 2 /\ Len(trades) = 2
    /\ agent_responses[1] # agent_responses[2]
    /\ Len(held[1].responses) = 2 /\ Len(held[1].trades) = 2
    /\ held[1].responses[2] = agent_responses[1]
    /\ held[1].responses[1] = agent_responses[2]
    /\ held[1].trades[2] = trades[1]

\* the trades of a run of the first k of the responses on a new framework
RECURSIVE RunTradesOf(_, _)
RunTradesOf(responses, k) ==
    IF k = 0 THEN << >>
    ELSE RunTradesOf(responses, k - 1)
            \o LoopBody(reference_date, market_data, responses[k]).trade

\* what the caller was handed: the metrics and the contents of the list
HeldValue(h) == IF h = << >> THEN << >> ELSE << h[1].metrics, h[1].trades >>

\* C20: what a run returns is what a run of its decisions on a new framework
\* returns, whatever earlier runs and direct calls left behind, and no step of a
\* run changes the trade sequence an earlier run returned
C20_RunStartsEmpty ==
    [][ /\ pc' = "returned" =>
              /\ trades' = RunTradesOf(agent_responses', Len(agent_responses'))
              /\ metrics' = FinalMetrics(InitialMetrics(agent_responses'), trades')
        /\ (pc \in {"idle", "loop"} /\ pc' \in {"loop", "returned"}) =>
              HeldValue(held') = HeldValue(held) ]_vars

C20_Witness ==
    /\ pc = "returned" /\ runs = 2
    /\ Len(held[1].trades) >
          Len(RunTradesOf(held[1].responses, Len(held[1].responses)))
    /\ Len(RunTradesOf(held[1].responses, Len(held[1].responses))) > 0
    /\ Len(trades) = 1
    /\ trades[1] # held[1].trades[1]

----------------------------------------------------------------------------
(* The framework state while a run is under way *)

\* C21: within a run each step leaves the trade collection unchanged or extends
\* it by exactly one trade at the end
C21_AppendOnly ==
    [][ pc = "loop" =>
           \/ trades' = trades
           \/ /\ Len(trades') = Len(trades) + 1
              /\ SubSeq(trades', 1, Len(trades)) = trades ]_vars

C21_Witness ==
    /\ pc = "loop" /\ idx = 2
    /\ Len(trades) = 2
    /\ trades[1].direction = "LONG" /\ trades[2].direction = "SHORT"
    /\ trades[1].exit_time # trades[2].exit_time

TradeFields ==
    {"entry_time", "exit_time", "entry_price", "exit_price", "position_size", "direction",
     "ticker", "fees", "pnl", "pnl_pct", "agent_name", "reasoning", "exit_reason"}

\* C22: when the simulation of a decision fails, the trade collection and the
\* open-position map are as before that decision, and every trade of the
\* collection is complete
C22_FailureLeavesState ==
    [][ /\ (pc = "loop" /\ idx' = idx + 1 /\ result'.error # "") =>
              /\ trades' = trades
              /\ current_positions' = current_positions
        /\ \A k \in 1..Len(trades') : DOMAIN trades'[k] = TradeFields ]_vars

C22_Witness ==
    /\ pc = "loop" /\ idx = 2
    /\ result.error = "No data available at or after exit time"
    /\ Len(trades) = 1
    /\ DOMAIN current_positions = {"AAA"}
    /\ current_positions["AAA"].direction = "LONG"
    /\ agent_responses[2].action = "SELL"

\* C23: once execute_trade has returned, and once run_backtest has returned, the
\* framework holds no open position
C23_NoPositionRetained ==
    (pc \in {"loop", "returned", "reported"}) => DOMAIN current_positions = {}

\* C24: no execute_trade call and no step of a run changes a series (its bars,
\* their order, timestamps and values, the type of its Datetime column) or a
\* decision payload
C24_InputsUnchanged ==
    [][ (pc \in {"idle", "loop"}) =>
           /\ market_data' = market_data
           /\ datetime_dtype' = datetime_dtype
           /\ agent_responses' = agent_responses ]_vars

\* C25: a decision the validator accepted has a timeframe of digits followed by
\* 'd', a positive amount and a profit fraction in [0, 1]
C25_AcceptedMeetsSchema ==
    (pc \in {"loop", "returned", "reported"}) =>
        \A i \in 1..Len(agent_responses) :
            LET r == agent_responses[i]
            IN  /\ EndsWith(r.expected_timeframe, "d")
                /\ IsDigits(DropLast(r.expected_timeframe))
                /\ r.amount > 0
                /\ r.expected_profit_percentage >= 0
                /\ r.expected_profit_percentage <= PDen

\* C26: every trade of the collection has exit_time >= entry_time
C26_ExitNotBeforeEntry ==
    \A k \in 1..Len(trades) : trades[k].exit_time >= trades[k].entry_time

\* C27: a trade closed by the target scan has entry_time <= exit_time <=
\* max_exit_time, a trade closed by the time limit exits at a bar's Close at or
\* after max_exit_time, and a bar stamped max_exit_time that satisfies the target
\* condition closes the trade at the target price
C27_HorizonSeparatesExits ==
    (Entered /\ Produced) =>
        /\ Qualifying # {} =>
              /\ Trade.exit_price = Target
              /\ Trade.entry_time <= Trade.exit_time
              /\ Trade.exit_time <= HorizonTime
        /\ Qualifying = {} =>
              /\ Trade.exit_time >= HorizonTime
              /\ \E i \in 1..Len(CurSeries) :
                    /\ CurSeries[i].Datetime = Trade.exit_time
                    /\ CurSeries[i].Close = Trade.exit_price
        /\ \A i \in 1..Len(CurSeries) :
              (/\ CurSeries[i].Datetime = HorizonTime
               /\ CurSeries[i].Datetime >= EntryBar.Datetime
               /\ QualifiesFor(Cur, CurSeries[i]))
                 => /\ Trade.exit_price = Target
                    /\ Trade.exit_time <= HorizonTime

C27_Witness ==
    /\ Entered /\ Produced
    /\ Cardinality(Qualifying) = 1
    /\ \A i \in Qualifying : CurSeries[i].Datetime = HorizonTime
                              /\ CurSeries[i].Close # Target
    /\ Trade.exit_time = HorizonTime
    /\ Trade.exit_price = Target
    /\ Trade.exit_time > Trade.entry_time

BarsOf(data) == UNION { { data[t][i] : i \in 1..Len(data[t]) } : t \in DOMAIN data }

\* C28: the decision slice and the validation slice share no bar, every bar of the
\* decision slice is before reference_date, every bar of the validation slice and
\* every entry and exit is at or after reference_date
C28_NoLookAhead ==
    (pc \in {"loop", "returned", "reported"}) =>
        /\ BarsOf(decision_data) \cap BarsOf(market_data) = {}
        /\ \A b \in BarsOf(decision_data) :
              b.Datetime < RefTime /\ b.Datetime >= RefTime - lookback_days * SlotsPerDay
        /\ \A b \in BarsOf(market_data) :
              b.Datetime >= RefTime /\ b.Datetime < RefTime + forward_days * SlotsPerDay
        /\ \A k \in 1..Len(trades) :
              /\ trades[k].entry_time >= RefTime
              /\ trades[k].exit_time >= RefTime
              /\ \E b \in BarsOf(market_data) : b.Datetime = trades[k].entry_time
              /\ \E b \in BarsOf(market_data) : b.Datetime = trades[k].exit_time

C28_Witness ==
    /\ pc = "reported"
    /\ Len(trades) = 1
    /\ trades[1].entry_time = RefTime
    /\ trades[1].exit_time > RefTime
    /\ \E b \in BarsOf(decision_data) : b.Datetime = RefTime - 1
    /\ \E b \in BarsOf(raw_data) : b.Datetime = RefTime + forward_days * SlotsPerDay

\* C29: the total_trades of the returned metrics is the number of returned trades,
\* and so the total_trades of the report
C29_TotalTradesCountsTrades ==
    /\ Returned => metrics.total_trades = Len(trades)
    /\ pc = "reported" => report[1].total_trades = metrics.total_trades

\* C30: a decision is simulated LONG exactly when its action is BUY, SHORT exactly
\* when its action is SELL, SHORT or PUT, with the target on the profit side of
\* the entry; any other action produces no trade
C30_DirectionMapping ==
    (Simulated /\ Produced) =>
        /\ Trade.direction = "LONG" <=> Cur.action = "BUY"
        /\ Trade.direction = "SHORT" <=> Cur.action \in {"SELL", "SHORT", "PUT"}
        /\ Trade.direction = "LONG" => Target >= Trade.entry_price
        /\ Trade.direction = "SHORT" => Target <= Trade.entry_price
        /\ Cur.action \in ValidActions

====
